---- MODULE Spec2Model ----
(***************************************************************************)
(* rlua_json: JsonWrapperValue, the converter between serde_json::Value    *)
(* and mlua::Value (src/src/lib.rs).                                       *)
(*                                                                         *)
(* Strings are byte sequences on both sides: a Rust String is valid UTF-8  *)
(* by construction, a Lua string is any byte sequence.  A Lua table is a   *)
(* function from its keys to its non-nil values; the order in which        *)
(* Table::pairs walks it is the engine's and is chosen afresh for every    *)
(* table.  The 64-bit integers and the 53-bit mantissa of f64 are scaled   *)
(* to IntBits and IntBits - 2 bits.  An f64 is [c, h]: c = "fin" with the  *)
(* value h / 2, or c one of "nan", "inf", "-inf" with h = 0.               *)
(***************************************************************************)
EXTENDS Integers, Sequences, FiniteSets, TLC

IntBits == 5
MaxLen == 2
MaxSets == 1
MaxStack == 3

I64_MAX == 2 ^ (IntBits - 1) - 1
I64_MIN == 0 - 2 ^ (IntBits - 1)
U64_MAX == 2 ^ IntBits - 1
F64_EXACT == 2 ^ (IntBits - 2)

Ok(v) == [ok |-> TRUE, val |-> v]
Err(e) == [ok |-> FALSE, err |-> e]
Some(v) == [some |-> TRUE, v |-> v]
None == [some |-> FALSE]

(* ------------------------------ f64 ------------------------------------ *)
Fin(h) == [c |-> "fin", h |-> h]
NaN == [c |-> "nan", h |-> 0]
Inf == [c |-> "inf", h |-> 0]
NegInf == [c |-> "-inf", h |-> 0]
is_finite(f) == f.c = "fin"

Abs(n) == IF n < 0 THEN 0 - n ELSE n

\* n rounded to a multiple of step, ties to the even multiple
RoundTiesEven(n, step) ==
    LET q == n \div step
        r == n % step
    IN  IF 2 * r < step THEN q * step
        ELSE IF 2 * r > step THEN (q + 1) * step
        ELSE IF q % 2 = 0 THEN q * step ELSE (q + 1) * step

\* `n as f64` for an integer n: exact below 2^mantissa, rounded above
IntAsF64(n) ==
    LET a == Abs(n)
        step == IF a < 2 * F64_EXACT THEN 1
                ELSE IF a < 4 * F64_EXACT THEN 2 ELSE 4
        m == RoundTiesEven(a, step)
    IN  Fin(2 * (IF n < 0 THEN 0 - m ELSE m))

(* --------------------------- strings ----------------------------------- *)
RECURSIVE Dec(_)
Dec(n) == IF n < 10 THEN <<48 + n>> ELSE Dec(n \div 10) \o <<48 + (n % 10)>>

\* lua_Integer to its decimal text
IntegerToStr(i) == IF i < 0 THEN <<45>> \o Dec(0 - i) ELSE Dec(i)

\* lua_Number to text (LUAI_NUMFFORMAT "%.14g", ".0" added to a whole value)
NumberToStr(f) ==
    CASE f.c = "nan" -> <<110, 97, 110>>
      [] f.c = "inf" -> <<105, 110, 102>>
      [] f.c = "-inf" -> <<45, 105, 110, 102>>
      [] OTHER ->
            LET a == Abs(f.h)
                sign == IF f.h < 0 THEN <<45>> ELSE <<>>
            IN  sign \o Dec(a \div 2) \o (IF a % 2 = 0 THEN <<46, 48>> ELSE <<46, 53>>)

Cont(b) == b >= 128 /\ b <= 191

\* core::str::from_utf8: whether the bytes are well-formed UTF-8
RECURSIVE IsUtf8(_)
IsUtf8(s) ==
    IF s = <<>> THEN TRUE
    ELSE LET b == s[1]
             n == Len(s)
         IN  CASE b <= 127 -> IsUtf8(SubSeq(s, 2, n))
               [] b >= 194 /\ b <= 223 ->
                     n >= 2 /\ Cont(s[2]) /\ IsUtf8(SubSeq(s, 3, n))
               [] b >= 224 /\ b <= 239 ->
                     /\ n >= 3 /\ Cont(s[2]) /\ Cont(s[3])
                     /\ (b = 224 => s[2] >= 160)
                     /\ (b = 237 => s[2] <= 159)
                     /\ IsUtf8(SubSeq(s, 4, n))
               [] b >= 240 /\ b <= 244 ->
                     /\ n >= 4 /\ Cont(s[2]) /\ Cont(s[3]) /\ Cont(s[4])
                     /\ (b = 240 => s[2] >= 144)
                     /\ (b = 244 => s[2] <= 143)
                     /\ IsUtf8(SubSeq(s, 5, n))
               [] OTHER -> FALSE

\* byte-wise lexicographic order of Rust strings (BTreeMap key order)
RECURSIVE StrLess(_, _)
StrLess(a, b) ==
    IF b = <<>> THEN FALSE
    ELSE IF a = <<>> THEN TRUE
    ELSE IF a[1] # b[1] THEN a[1] < b[1]
    ELSE StrLess(Tail(a), Tail(b))

(* ----------------------- serde_json::Value ----------------------------- *)
PosInt(u) == [k |-> "PosInt", u |-> u]
NegInt(i) == [k |-> "NegInt", i |-> i]
Float(f) == [k |-> "Float", f |-> f]

JsonNull == [t |-> "Null"]
JsonBool(b) == [t |-> "Bool", b |-> b]
JsonNumber(n) == [t |-> "Number", n |-> n]
JsonString(s) == [t |-> "String", s |-> s]
JsonArray(a) == [t |-> "Array", a |-> a]
JsonObject(o) == [t |-> "Object", o |-> o]

\* a cast in place of the range check
as_i64_Wrapping(n) ==
    CASE n.k = "PosInt" -> Some(IF n.u <= I64_MAX THEN n.u ELSE n.u - 2 ^ IntBits)
      [] n.k = "NegInt" -> Some(n.i)
      [] OTHER -> None

\* serde_json::Number::as_i64
as_i64(n) ==
    CASE n.k = "PosInt" -> IF n.u <= I64_MAX THEN Some(n.u) ELSE None
      [] n.k = "NegInt" -> Some(n.i)
      [] OTHER -> None

\* no float for an unsigned integer
as_f64_SignedOnly(n) ==
    CASE n.k = "PosInt" -> None
      [] n.k = "NegInt" -> Some(IntAsF64(n.i))
      [] OTHER -> Some(n.f)

\* serde_json::Number::as_f64
as_f64(n) ==
    CASE n.k = "PosInt" -> Some(IntAsF64(n.u))
      [] n.k = "NegInt" -> Some(IntAsF64(n.i))
      [] OTHER -> Some(n.f)

\* impl From<i64> for Value
JsonFromI64(i) == JsonNumber(IF i >= 0 THEN PosInt(i) ELSE NegInt(i))

\* every float taken as a Number
JsonFromF64_Unchecked(f) == JsonNumber(Float(f))

\* impl From<f64> for Value: Number::from_f64(f).map_or(Value::Null, Value::Number)
JsonFromF64(f) == IF is_finite(f) THEN JsonNumber(Float(f)) ELSE JsonNull

\* the map begun anew at every insert
MapInsert_Fresh(o, key, value) == [x \in {key} |-> value]

\* serde_json::Map::insert
MapInsert(o, key, value) ==
    [x \in DOMAIN o \cup {key} |-> IF x = key THEN value ELSE o[x]]

(* --------------------------- mlua::Value ------------------------------- *)
LuaNil == [t |-> "Nil"]
LuaBoolean(b) == [t |-> "Boolean", b |-> b]
LuaInteger(i) == [t |-> "Integer", i |-> i]
LuaNumber(f) == [t |-> "Number", f |-> f]
LuaString(s) == [t |-> "String", s |-> s]
LuaTable(tab) == [t |-> "Table", tab |-> tab]
LuaHost(name) == [t |-> name]

HostOnly == {"LightUserData", "Function", "Thread", "UserData", "Error", "Other"}

EmptyTable == [x \in {} |-> LuaNil]

\* lua_rawset: a nil value removes the entry
RawSet(tab, key, value) ==
    IF value = LuaNil
    THEN [x \in DOMAIN tab \ {key} |-> tab[x]]
    ELSE [x \in DOMAIN tab \cup {key} |-> IF x = key THEN value ELSE tab[x]]

Perms(S) ==
    {p \in [1..Cardinality(S) -> S] : \A i, j \in 1..Cardinality(S) : p[i] = p[j] => i = j}

\* the keys of a serde_json::Map in its iteration order
MapKeys(o) ==
    CHOOSE p \in Perms(DOMAIN o) : \A i, j \in 1..Len(p) : i < j => StrLess(p[i], p[j])

(* ------------------ impl IntoLua for JsonWrapperValue ------------------ *)
ToLuaConversionError ==
    [kind |-> "ToLuaConversionError", from |-> "JsonValue::Number", to |-> "Value::Number"]

RECURSIVE into_lua(_)
RECURSIVE TableFrom(_, _)

\* Lua::create_table_from: each (key, value) is converted and raw-set in turn
TableFrom(items, tab) ==
    IF items = <<>> THEN Ok(LuaTable(tab))
    ELSE LET r == into_lua(items[1][2])
         IN  IF ~r.ok THEN r
             ELSE TableFrom(Tail(items), RawSet(tab, items[1][1], r.val))

create_table_from(items) == TableFrom(items, EmptyTable)

\* the Number arm of into_lua
NumberIntoLua(n) ==
    LET ni == as_i64(n)
        nf == as_f64(n)
    IN  IF ni.some THEN Ok(LuaInteger(ni.v))
        ELSE IF ~nf.some THEN Err(ToLuaConversionError)
        ELSE Ok(LuaNumber(nf.v))

\* the Object arm: o.into_iter() mapped to (k, JsonWrapperValue)
ObjectIntoLua(o) ==
    LET keys == MapKeys(o)
    IN  create_table_from([i \in 1..Len(keys) |-> <<LuaString(keys[i]), o[keys[i]]>>])

\* indices from 1
ArrayIntoLua_OneBased(a) ==
    create_table_from([i \in 1..Len(a) |-> <<LuaInteger(i), a[i]>>])

\* the Array arm: a.into_iter().enumerate(), indices from 0
ArrayIntoLua(a) ==
    create_table_from([i \in 1..Len(a) |-> <<LuaInteger(i - 1), a[i]>>])

into_lua(v) ==
    CASE v.t = "Null" -> Ok(LuaNil)
      [] v.t = "String" -> Ok(LuaString(v.s))
      [] v.t = "Number" -> NumberIntoLua(v.n)
      [] v.t = "Bool" -> Ok(LuaBoolean(v.b))
      [] v.t = "Object" -> ObjectIntoLua(v.o)
      [] v.t = "Array" -> ArrayIntoLua(v.a)

(* ------------------ impl FromLua for JsonWrapperValue ------------------ *)
FromLuaConversionError(from, to) ==
    [kind |-> "FromLuaConversionError", from |-> from, to |-> to]

\* mlua::Value::type_name
type_name(v) ==
    CASE v.t = "Nil" -> "nil"
      [] v.t = "Boolean" -> "boolean"
      [] v.t = "LightUserData" -> "lightuserdata"
      [] v.t = "Integer" -> "integer"
      [] v.t = "Number" -> "number"
      [] v.t = "String" -> "string"
      [] v.t = "Table" -> "table"
      [] v.t = "Function" -> "function"
      [] v.t = "Thread" -> "thread"
      [] v.t = "UserData" -> "userdata"
      [] v.t = "Error" -> "error"
      [] OTHER -> "other"

\* impl FromLua for mlua::String, as Table::pairs applies it to a key:
\* strings pass, numbers are coerced to their text, anything else is an error
StringFromLua(key) ==
    CASE key.t = "String" -> Ok(key.s)
      [] key.t = "Integer" -> Ok(IntegerToStr(key.i))
      [] key.t = "Number" -> Ok(NumberToStr(key.f))
      [] OTHER -> Err(FromLuaConversionError(type_name(key), "string"))

\* mlua::String::to_str
to_str(s) == IF IsUtf8(s) THEN Ok(s) ELSE Err(FromLuaConversionError("string", "&str"))

\* the catch-all variant taken as Null
Unconvertible_OtherAsNull(v) ==
    IF v.t = "Other" THEN Ok(JsonNull) ELSE Err(FromLuaConversionError(v.t, "JsonValue"))

\* the arms of from_lua that return Err at once
Unconvertible(v) == Err(FromLuaConversionError(v.t, "JsonValue"))

\* the arms of from_lua for the values that hold no other value
ScalarFromLua(v) ==
    CASE v.t = "Nil" -> Ok(JsonNull)
      [] v.t = "Boolean" -> Ok(JsonBool(v.b))
      [] v.t = "Integer" -> Ok(JsonFromI64(v.i))
      [] v.t = "Number" -> Ok(JsonFromF64(v.f))
      [] v.t = "String" ->
            LET s == to_str(v.s) IN IF s.ok THEN Ok(JsonString(s.val)) ELSE s
      [] OTHER -> Unconvertible(v)

EmptyMap == [x \in {} |-> JsonNull]

RECURSIVE from_lua(_)
RECURSIVE PairsLoop(_, _, _)

\* the for loop of the Table arm over the pairs still to come, in the order
\* `rest`, with the map `o` built so far: the set of results it can end with
PairsLoop(tab, rest, o) ==
    IF rest = <<>> THEN {Ok(JsonObject(o))}
    ELSE LET pair == StringFromLua(rest[1])
             key == IF pair.ok THEN to_str(pair.val) ELSE pair
         IN  IF ~key.ok THEN {key}
             ELSE UNION {IF ~value.ok THEN {value}
                         ELSE PairsLoop(tab, Tail(rest), MapInsert(o, key.val, value.val)) :
                         value \in from_lua(tab[rest[1]])}

\* from_lua: the set of results over the orders in which pairs() can walk
\* each table
from_lua(lua_value) ==
    IF lua_value.t = "Table"
    THEN UNION {PairsLoop(lua_value.tab, order, EmptyMap) :
                order \in Perms(DOMAIN lua_value.tab)}
    ELSE {ScalarFromLua(lua_value)}

(* ----------------------------- inputs ---------------------------------- *)
Arrays(items) == {JsonArray(a) : a \in UNION {[1..n -> items] : n \in 0..MaxLen}}
Objects(keys, items) ==
    {JsonObject(o) : o \in UNION {[D -> items] : D \in {D \in SUBSET keys : Cardinality(D) <= MaxLen}}}

DocStrings == {<<97>>, <<195, 169>>}
DocKeys == {<<97>>, <<48>>, <<102, 111, 111>>}
DocNumbers ==
    {PosInt(0), PosInt(1), PosInt(I64_MAX), NegInt(0 - 1), NegInt(I64_MIN),
     PosInt(I64_MAX + 1), PosInt(U64_MAX), Float(Fin(3)), Float(Fin(4)), Float(Fin(0 - 1))}
DocLeaves ==
    {JsonNull, JsonBool(TRUE), JsonBool(FALSE)}
        \cup {JsonNumber(n) : n \in DocNumbers} \cup {JsonString(x) : x \in DocStrings}
DocItems ==
    {JsonNull, JsonBool(TRUE), JsonNumber(PosInt(1)), JsonNumber(PosInt(U64_MAX)),
     JsonNumber(Float(Fin(4))), JsonString(<<98, 97, 114>>)}
DocFlat == Arrays(DocItems) \cup Objects(DocKeys, DocItems)
DocNestItems ==
    {JsonNull, JsonString(<<195, 169>>), JsonArray(<<>>),
     JsonArray(<<JsonNull, JsonNumber(NegInt(I64_MIN))>>),
     JsonObject(MapInsert(EmptyMap, <<97>>, JsonNull)),
     JsonObject(MapInsert(MapInsert(EmptyMap, <<97>>, JsonNumber(NegInt(I64_MIN))),
                          <<48>>, JsonString(<<>>)))}
DocNested == Arrays(DocNestItems) \cup Objects(DocKeys, DocNestItems)
DocValues == DocLeaves \cup DocFlat \cup DocNested

Tables(keys, items) ==
    {LuaTable(tab) : tab \in UNION {[D -> items] : D \in {D \in SUBSET keys : Cardinality(D) <= MaxLen}}}

LuaLeaves ==
    {LuaNil, LuaBoolean(TRUE), LuaBoolean(FALSE), LuaInteger(1), LuaInteger(I64_MIN),
     LuaNumber(Fin(3)), LuaNumber(Fin(4)), LuaNumber(NaN), LuaNumber(Inf), LuaNumber(NegInf),
     LuaString(<<97>>), LuaString(<<195, 169>>), LuaString(<<255>>), LuaString(<<195>>)}
        \cup {LuaHost(h) : h \in HostOnly}
\* keys a table can hold: no nil, no NaN, no float with a whole value
LuaKeys ==
    {LuaString(<<97>>), LuaString(<<49>>), LuaInteger(1), LuaNumber(Fin(3)),
     LuaString(<<49, 46, 53>>), LuaBoolean(TRUE), LuaString(<<255>>), LuaHost("Function")}
LuaItems ==
    {LuaBoolean(TRUE), LuaInteger(1), LuaNumber(NaN), LuaString(<<97>>), LuaString(<<255>>),
     LuaHost("Function")}
LuaFlat == Tables(LuaKeys, LuaItems)
LuaNestKeys == {LuaString(<<97>>), LuaInteger(1), LuaString(<<49>>)}
LuaNestItems ==
    {LuaInteger(1), LuaTable(EmptyTable),
     LuaTable(RawSet(EmptyTable, LuaString(<<97>>), LuaHost("UserData"))),
     LuaTable(RawSet(EmptyTable, LuaBoolean(TRUE), LuaInteger(1))),
     LuaTable(RawSet(RawSet(EmptyTable, LuaInteger(1), LuaString(<<97>>)),
                     LuaString(<<49>>), LuaBoolean(FALSE)))}
LuaNested == Tables(LuaNestKeys, LuaNestItems)
LuaValues == LuaLeaves \cup LuaFlat \cup LuaNested

\* what the host script writes into a table it was handed
SetKeys == {<<102, 111, 111>>, <<102, 114, 111, 109, 95, 108, 117, 97>>}
SetValues == {<<98, 97, 114>>, <<115, 116, 114>>}

(* --------------------------- the program ------------------------------- *)
VARIABLES src, doc, lua, sets, out, pc, heap, order, arg, ret, stack, visits, depth
conv == <<src, doc, lua, sets>>
rec == <<heap, order, arg, ret, stack, visits, depth>>
vars == <<src, doc, lua, sets, out, pc, heap, order, arg, ret, stack, visits, depth>>

NoResult == Err([kind |-> "none", from |-> "", to |-> ""])

\* no from_lua call is in progress
Idle ==
    /\ heap = <<>> /\ order = <<>> /\ arg = LuaNil /\ ret = NoResult
    /\ stack = <<>> /\ visits = 0 /\ depth = 0

\* either a document to encode, or a value the script produced to decode
Init ==
    /\ Idle
    /\ sets = <<>>
    /\ out = NoResult
    /\ \/ src = "json" /\ doc \in DocValues /\ lua = LuaNil /\ pc = "json"
       \/ src = "lua" /\ doc = JsonNull /\ lua \in LuaValues /\ pc = "lua"

\* JsonWrapperValue::into_lua(doc)
IntoLua ==
    /\ pc = "json"
    /\ LET r == into_lua(doc)
       IN  IF r.ok
           THEN lua' = r.val /\ pc' = "lua" /\ out' = out
           ELSE lua' = lua /\ pc' = "done" /\ out' = r
    /\ UNCHANGED <<src, doc, sets, rec>>

\* Table::set(key, value) with a &str key and a &str value
TableSetStr(tab, key, value) == RawSet(tab, LuaString(key), LuaString(value))

\* the host writes a string entry into the table into_lua returned
TableSet(key, value) ==
    /\ pc = "lua" /\ src = "json"
    /\ lua.t = "Table"
    /\ Len(sets) < MaxSets
    /\ lua' = LuaTable(TableSetStr(lua.tab, key, value))
    /\ sets' = Append(sets, <<key, value>>)
    /\ UNCHANGED <<src, doc, out, pc, rec>>

\* JsonWrapperValue::from_lua(lua)
FromLua ==
    /\ pc = "lua"
    /\ out' \in from_lua(lua)
    /\ pc' = "done"
    /\ UNCHANGED <<src, doc, lua, sets, rec>>

Next ==
    \/ IntoLua
    \/ \E key \in SetKeys, value \in SetValues : TableSet(key, value)
    \/ FromLua

Spec == Init /\ [][Next]_vars

(* ---------------- from_lua, call by call, on a table graph ------------- *)
\* The tables live in the engine: heap[id] is the table, a Table value is a
\* reference to it, and order[id] is the order in which pairs() walks it (the
\* same on every walk of an unchanged table).  stack holds the Table arms in
\* progress, innermost last: the table, the index of the pair at hand, the
\* key it was given and the map built so far.
TableIds == {1, 2}
LuaRef(id) == [t |-> "Table", ref |-> id]
HeapKeys == {LuaString(<<97>>), LuaString(<<98>>), LuaBoolean(TRUE)}
HeapItems == {LuaInteger(1), LuaHost("Function")} \cup {LuaRef(id) : id \in TableIds}
HeapTables == UNION {[D -> HeapItems] : D \in {D \in SUBSET HeapKeys : Cardinality(D) <= 2}}

RecInit ==
    /\ src = "heap" /\ doc = JsonNull /\ lua = LuaNil /\ sets = <<>>
    /\ heap \in [TableIds -> HeapTables]
    /\ order \in [TableIds -> UNION {Perms(D) : D \in SUBSET HeapKeys}]
    /\ \A id \in TableIds : order[id] \in Perms(DOMAIN heap[id])
    /\ arg = LuaRef(1)
    /\ ret = NoResult /\ out = NoResult
    /\ stack = <<>> /\ visits = 0 /\ depth = 0
    /\ pc = "call"

\* the first pair skipped
Frame_SkipFirst(id) == [id |-> id, i |-> 2, key |-> <<>>, o |-> EmptyMap]

\* the Table arm begins: `let mut o = json!({})` and the pairs iterator
Frame(id) == [id |-> id, i |-> 1, key |-> <<>>, o |-> EmptyMap]

Max(a, b) == IF a >= b THEN a ELSE b
Top == stack[Len(stack)]
Pop == SubSeq(stack, 1, Len(stack) - 1)
ReplaceTop(frame) == [stack EXCEPT ![Len(stack)] = frame]

\* from_lua is entered with arg: every arm but Table returns at once
Call ==
    /\ pc = "call"
    /\ visits' = visits + 1
    /\ IF arg.t = "Table"
       THEN IF Len(stack) >= MaxStack
            THEN pc' = "overflow" /\ UNCHANGED <<stack, ret, depth>>
            ELSE /\ stack' = Append(stack, Frame(arg.ref))
                 /\ depth' = Max(depth, Len(stack) + 1)
                 /\ pc' = "loop"
                 /\ ret' = ret
       ELSE /\ ret' = ScalarFromLua(arg)
            /\ pc' = "return"
            /\ UNCHANGED <<stack, depth>>
    /\ UNCHANGED <<conv, out, heap, order, arg>>

\* one turn of `for pair in t.pairs()`: the loop ends, or the key fails, or
\* from_lua is called on the value
Loop ==
    /\ pc = "loop"
    /\ LET f == Top
           keys == order[f.id]
       IN  IF f.i > Len(keys)
           THEN /\ ret' = Ok(JsonObject(f.o))
                /\ stack' = Pop
                /\ pc' = "return"
                /\ arg' = arg
           ELSE LET pair == StringFromLua(keys[f.i])
                    key == IF pair.ok THEN to_str(pair.val) ELSE pair
                IN  IF ~key.ok
                    THEN ret' = key /\ stack' = Pop /\ pc' = "return" /\ arg' = arg
                    ELSE /\ stack' = ReplaceTop([f EXCEPT !.key = key.val])
                         /\ arg' = heap[f.id][keys[f.i]]
                         /\ pc' = "call"
                         /\ ret' = ret
    /\ UNCHANGED <<conv, out, heap, order, visits, depth>>

\* a from_lua call returns ret: to the caller of the outermost call, or into
\* the loop that made it, where `?` passes an Err on and insert takes an Ok
Return ==
    /\ pc = "return"
    /\ IF stack = <<>>
       THEN out' = ret /\ pc' = "done" /\ UNCHANGED <<stack>>
       ELSE IF ret.ok
       THEN /\ stack' = ReplaceTop([Top EXCEPT !.o = MapInsert(Top.o, Top.key, ret.val),
                                                !.i = Top.i + 1])
            /\ pc' = "loop"
            /\ out' = out
       ELSE stack' = Pop /\ pc' = "return" /\ out' = out
    /\ UNCHANGED <<conv, heap, order, arg, ret, visits, depth>>

RecNext == Call \/ Loop \/ Return

RecSpec == RecInit /\ [][RecNext]_vars

\* the conversion is one synchronous call: it runs on while it can
FairRecSpec == RecSpec /\ WF_vars(RecNext)

(* ------------------------- the properties ------------------------------ *)
Encoded == src = "json" /\ pc = "lua" /\ sets = <<>>
RoundTripped == src = "json" /\ pc = "done" /\ sets = <<>>
Decoded == src = "lua" /\ pc = "done"

\* every Number of v fits a signed 64-bit integer
RECURSIVE FitsI64(_)
FitsI64(v) ==
    CASE v.t = "Number" -> v.n.k = "NegInt" \/ (v.n.k = "PosInt" /\ v.n.u <= I64_MAX)
      [] v.t = "Array" -> \A i \in DOMAIN v.a : FitsI64(v.a[i])
      [] v.t = "Object" -> \A key \in DOMAIN v.o : FitsI64(v.o[key])
      [] OTHER -> TRUE

\* v holds no Array and no Null inside an Object
RECURSIVE Plain(_)
Plain(v) ==
    CASE v.t = "Array" -> FALSE
      [] v.t = "Object" -> \A key \in DOMAIN v.o : v.o[key] # JsonNull /\ Plain(v.o[key])
      [] OTHER -> TRUE

\* v with each Array made the Object of its indices "0", "1", ...
RECURSIVE ArraysAsObjects(_)
ArraysAsObjects(v) ==
    CASE v.t = "Array" ->
            JsonObject([key \in {Dec(i - 1) : i \in DOMAIN v.a} |->
                ArraysAsObjects(v.a[CHOOSE i \in DOMAIN v.a : Dec(i - 1) = key])])
      [] v.t = "Object" -> JsonObject([key \in DOMAIN v.o |-> ArraysAsObjects(v.o[key])])
      [] OTHER -> v

\* v with every Null item and Null member taken out, at every depth
RECURSIVE WithoutNullMembers(_)
WithoutNullMembers(v) ==
    IF v.t = "Object"
    THEN JsonObject([key \in {x \in DOMAIN v.o : v.o[x] # JsonNull} |->
                        WithoutNullMembers(v.o[key])])
    ELSE v

C2_LeavesPreserved ==
    (RoundTripped /\ FitsI64(doc)) => out = Ok(ArraysAsObjects(doc))

\* the value the sets leave under key in the Object o
RECURSIVE AfterSets(_, _, _)
AfterSets(o, writes, key) ==
    IF writes = <<>> THEN o[key]
    ELSE IF writes[Len(writes)][1] = key THEN JsonString(writes[Len(writes)][2])
    ELSE AfterSets(o, SubSeq(writes, 1, Len(writes) - 1), key)

StringObject(v) == v.t = "Object" /\ \A key \in DOMAIN v.o : v.o[key].t = "String"

\* C3: for every Object o with string values, into_lua, then table[k] = s for
\* strings k and s, then from_lua succeeds and yields the Object that maps k to
\* s and every other key of o to its value in o, with no further entries.
C3_HostMutationCarried ==
    (src = "json" /\ pc = "done" /\ sets # <<>> /\ StringObject(doc)) =>
        /\ out.ok /\ out.val.t = "Object"
        /\ DOMAIN out.val.o = DOMAIN doc.o \cup {sets[i][1] : i \in DOMAIN sets}
        /\ \A key \in DOMAIN out.val.o : out.val.o[key] = AfterSets(doc.o, sets, key)

C3_Witness ==
    /\ src = "json" /\ pc = "done" /\ StringObject(doc)
    /\ DOMAIN doc.o = {<<102, 111, 111>>}
    /\ sets = <<<<(<<102, 114, 111, 109, 95, 108, 117, 97>>), (<<115, 116, 114>>)>>>>
    /\ out.ok /\ Cardinality(DOMAIN out.val.o) = 2

\* a host-only value is v or a value in a table of v, at any depth
RECURSIVE HoldsHostOnly(_)
HoldsHostOnly(v) ==
    \/ v.t \in HostOnly
    \/ v.t = "Table" /\ \E key \in DOMAIN v.tab : HoldsHostOnly(v.tab[key])

RECURSIVE OnlyStringKeys(_)
OnlyStringKeys(v) ==
    v.t = "Table" =>
        \A key \in DOMAIN v.tab : key.t = "String" /\ OnlyStringKeys(v.tab[key])

\* every string of v, key or value, is valid UTF-8
RECURSIVE AllUtf8(_)
AllUtf8(v) ==
    CASE v.t = "String" -> IsUtf8(v.s)
      [] v.t = "Table" -> \A key \in DOMAIN v.tab : AllUtf8(key) /\ AllUtf8(v.tab[key])
      [] OTHER -> TRUE

\* C4 as claimed: from_lua returns an error whenever the input is, or holds at
\* any depth, a host-only value; on a host-only input the error's `from` names
\* that variant; and from_lua succeeds on every acyclic input that holds none
\* of them and has only string keys.
C4_FailsOnlyOnHostOnly ==
    Decoded =>
        /\ (HoldsHostOnly(lua) => ~out.ok)
        /\ (lua.t \in HostOnly => out = Err(FromLuaConversionError(lua.t, "JsonValue")))
        /\ ((~HoldsHostOnly(lua) /\ OnlyStringKeys(lua)) => out.ok)

\* C4 amended: as claimed, but from_lua succeeds on every acyclic input that
\* holds no host-only value, has only string keys, and whose strings (keys and
\* values) are all valid UTF-8.
C4_FailsOnHostOnlyOrBadString ==
    Decoded =>
        /\ (HoldsHostOnly(lua) => ~out.ok)
        /\ (lua.t \in HostOnly => out = Err(FromLuaConversionError(lua.t, "JsonValue")))
        /\ ((~HoldsHostOnly(lua) /\ OnlyStringKeys(lua) /\ AllUtf8(lua)) => out.ok)

C4_Witness ==
    /\ Decoded /\ lua.t = "Table"
    /\ \E key \in DOMAIN lua.tab :
          /\ lua.tab[key].t = "Table" /\ HoldsHostOnly(lua.tab[key])
          /\ \A x \in DOMAIN lua.tab \ {key} : ~HoldsHostOnly(lua.tab[x])
    /\ Cardinality(DOMAIN lua.tab) = 2
    /\ ~out.ok

\* the key has a string form that is valid UTF-8
GoodKey(key) == StringFromLua(key).ok /\ IsUtf8(StringFromLua(key).val)

\* C5 as claimed: Integer and Float keys are kept under their string form; a
\* table with a key that is not coercible to a string, or with a string key
\* that is not valid UTF-8, makes from_lua fail; and no entry is ever dropped
\* or its key replaced: each pair is in the result under the key's string form.
C5_KeysFailNeverSkip ==
    (Decoded /\ lua.t = "Table") =>
        /\ ((\E key \in DOMAIN lua.tab : ~GoodKey(key)) => ~out.ok)
        /\ (out.ok =>
              \A key \in DOMAIN lua.tab :
                  /\ StringFromLua(key).val \in DOMAIN out.val.o
                  /\ Ok(out.val.o[StringFromLua(key).val]) \in from_lua(lua.tab[key]))

\* C6: into_lua returns Ok for every Document value, the unsigned integers
\* above the signed maximum and the floats included; the ToLuaConversionError
\* of the Number arm is never returned.
C6_EncodeTotal ==
    (src = "json" /\ pc # "json") =>
        /\ out # Err(ToLuaConversionError)
        /\ (pc = "lua" /\ sets = <<>>) => (lua = LuaNil <=> doc = JsonNull)

C6_Witness ==
    /\ Encoded /\ doc.t = "Array" /\ Len(doc.a) = 2
    /\ doc.a[1] = JsonNumber(PosInt(U64_MAX)) /\ doc.a[2] = JsonNumber(Float(Fin(4)))
    /\ lua.t = "Table" /\ Cardinality(DOMAIN lua.tab) = 2

\* the Number holds a whole value
ExactInteger(n) == n.k \in {"PosInt", "NegInt"} \/ (is_finite(n.f) /\ n.f.h % 2 = 0)
IntegerOf(n) ==
    CASE n.k = "PosInt" -> n.u
      [] n.k = "NegInt" -> n.i
      [] OTHER -> n.f.h \div 2

\* C7 as claimed: into_lua maps Number(n) to Integer(n) whenever n is a whole
\* value (an unsigned value above the signed maximum and a float-stored 2.0
\* included) and otherwise to Float; no Number is rescaled by 0.01.
C7_WholeNumbersAsInteger ==
    (Encoded /\ doc.t = "Number") =>
        IF ExactInteger(doc.n) THEN lua = LuaInteger(IntegerOf(doc.n))
        ELSE lua = LuaNumber(doc.n.f)

\* C7 amended: into_lua maps Number(n) to Integer(n) whenever n is stored as
\* an integer that fits a signed 64-bit integer, and otherwise to Float: an
\* unsigned value above the signed maximum by `as f64`, a float-stored number
\* (2.0 too) unchanged; no Number is rescaled by 0.01.
C7_DirectStrategy ==
    (Encoded /\ doc.t = "Number") =>
        CASE doc.n.k = "NegInt" -> lua = LuaInteger(doc.n.i)
          [] doc.n.k = "PosInt" /\ doc.n.u <= I64_MAX -> lua = LuaInteger(doc.n.u)
          [] doc.n.k = "PosInt" /\ doc.n.u > I64_MAX -> lua = LuaNumber(IntAsF64(doc.n.u))
          [] OTHER -> lua = LuaNumber(doc.n.f)

C7_Witness ==
    Encoded /\ doc = JsonNumber(Float(Fin(4))) /\ lua = LuaNumber(Fin(4))

\* C8 as claimed: from_lua maps Nil to Null, Boolean(b) to Bool(b), Integer(i)
\* to Number(i) exactly, and every Float, finite, NaN or infinite, to a result
\* of the Number variant.
C8_FloatAlwaysNumber ==
    Decoded =>
        CASE lua.t = "Nil" -> out = Ok(JsonNull)
          [] lua.t = "Boolean" -> out = Ok(JsonBool(lua.b))
          [] lua.t = "Integer" ->
                out.ok /\ out.val.t = "Number" /\ as_i64(out.val.n) = Some(lua.i)
          [] lua.t = "Number" -> out.ok /\ out.val.t = "Number"
          [] OTHER -> TRUE

\* C8 amended: as claimed for Nil, Boolean and Integer; a finite Float f gives
\* Number(f), and a NaN or infinite Float gives Null.
C8_ScalarMapping ==
    Decoded =>
        CASE lua.t = "Nil" -> out = Ok(JsonNull)
          [] lua.t = "Boolean" -> out = Ok(JsonBool(lua.b))
          [] lua.t = "Integer" ->
                out.ok /\ out.val.t = "Number" /\ as_i64(out.val.n) = Some(lua.i)
          [] lua.t = "Number" ->
                IF lua.f.c = "fin" THEN out = Ok(JsonNumber(Float(lua.f)))
                ELSE out = Ok(JsonNull)
          [] OTHER -> TRUE

C8_Witness == Decoded /\ lua = LuaNumber(Inf) /\ out = Ok(JsonNull)

\* C9 as claimed: for every table with n pairs whose keys all have a string
\* form and whose values all decode, from_lua yields an Object with exactly n
\* entries; two distinct keys never collapse into one Object key.
C9_NoEntryLost ==
    (/\ Decoded /\ lua.t = "Table"
     /\ \A key \in DOMAIN lua.tab :
           GoodKey(key) /\ \A r \in from_lua(lua.tab[key]) : r.ok) =>
        /\ out.ok /\ out.val.t = "Object"
        /\ Cardinality(DOMAIN out.val.o) = Cardinality(DOMAIN lua.tab)

(* ------------------- properties of the recursion ----------------------- *)
Root == LuaRef(1)
Refs(id) == {heap[id][key].ref : key \in {x \in DOMAIN heap[id] : heap[id][x].t = "Table"}}

\* the tables reached from the tables S in at most n steps
RECURSIVE Reach(_, _)
Reach(S, n) == IF n = 0 THEN S ELSE Reach(S \cup UNION {Refs(id) : id \in S}, n - 1)
Reachable == Reach({Root.ref}, Cardinality(TableIds))

\* the root table holds, directly or through other tables, a table that
\* holds itself
Cyclic == \E id \in Reachable : id \in Reach(Refs(id), Cardinality(TableIds))

\* nothing reachable makes from_lua fail
ErrorFree ==
    \A id \in Reachable : \A key \in DOMAIN heap[id] :
        GoodKey(key) /\ (heap[id][key].t # "Table" => ScalarFromLua(heap[id][key]).ok)

\* the values in v, v included, each counted once for every place it is in
RECURSIVE Occurrences(_)
RECURSIVE OccurrencesIn(_, _)
OccurrencesIn(id, keys) ==
    IF keys = <<>> THEN 0
    ELSE Occurrences(heap[id][keys[1]]) + OccurrencesIn(id, Tail(keys))
Occurrences(v) == IF v.t = "Table" THEN 1 + OccurrencesIn(v.ref, order[v.ref]) ELSE 1

\* how deep tables are nested in v
RECURSIVE Nesting(_)
RECURSIVE NestingIn(_, _)
NestingIn(id, keys) ==
    IF keys = <<>> THEN 0
    ELSE Max(Nesting(heap[id][keys[1]]), NestingIn(id, Tail(keys)))
Nesting(v) == IF v.t = "Table" THEN 1 + NestingIn(v.ref, order[v.ref]) ELSE 0

\* the value with every reference replaced by the table it names
RECURSIVE Unfold(_)
Unfold(v) ==
    IF v.t = "Table"
    THEN LuaTable([key \in DOMAIN heap[v.ref] |-> Unfold(heap[v.ref][key])])
    ELSE v

\* on a table graph without cycles the calls end with a result of from_lua
CallByCallAgrees ==
    (src = "heap" /\ ~Cyclic /\ pc = "done") => out \in from_lua(Unfold(Root))

\* C10 as claimed, its second half: on a table that holds itself directly or
\* transitively from_lua never reaches a result.
C10_CyclicNeverReturns ==
    (src = "heap" /\ Cyclic) => pc # "done"

C10_Bounded ==
    /\ ~Cyclic =>
          /\ pc # "overflow"
          /\ visits <= Occurrences(Root)
          /\ depth <= Nesting(Root)
          /\ (pc = "done" /\ out.ok) =>
                (visits = Occurrences(Root) /\ depth = Nesting(Root))
    /\ Cyclic =>
          /\ pc = "done" => ~out.ok
          /\ ErrorFree => pc # "done"

\* C10 amended: on every finite acyclic value from_lua terminates with Ok or
\* Err, visiting each nested value at most once for each place it is in and
\* all of them when it returns Ok, with recursion depth at most the table
\* nesting depth and equal to it on Ok; on a table that holds itself directly
\* or transitively from_lua has no cycle guard and never returns Ok: it
\* returns an Err when it meets a failing key or value before it re-enters
\* the cycle, and otherwise the recursion passes every depth.
C10_Termination ==
    /\ [](src = "heap" => C10_Bounded)
    /\ (src = "heap" /\ ~Cyclic) ~> (pc = "done")
    /\ (src = "heap" /\ Cyclic /\ ErrorFree) ~> (pc = "overflow")

C10_Witness ==
    /\ src = "heap" /\ ~Cyclic /\ pc = "done" /\ out.ok
    /\ Refs(1) = {2} /\ Cardinality(DOMAIN heap[1]) = 2 /\ Cardinality(DOMAIN heap[2]) = 2
    /\ \A key \in DOMAIN heap[1] : heap[1][key] = LuaRef(2)
    /\ visits = 7 /\ depth = 2

====
